---------------------------- MODULE Spec2Model ----------------------------
(***************************************************************************)
(* Verification model of the todo_system repository:                       *)
(*   - TodoManager (src/todo_system/src/todo.py): a JSON document          *)
(*     {tasks, next_id} that every command loads, modifies and rewrites;   *)
(*   - the tracked-file matcher shared by the two file-change hooks;       *)
(*   - the block hook (pre_prevent_modify_hook.py);                        *)
(*   - the notification hook (notification_line_hook.py).                  *)
(*                                                                         *)
(* Text that the code inspects character by character (paths, patterns,    *)
(* the event name) is a sequence of one-character strings; text that the   *)
(* code only compares as a whole (tool names, credentials, titles) is a    *)
(* TLA+ string.  pathlib is modelled with its POSIX flavour.               *)
(***************************************************************************)
EXTENDS Integers, Sequences, FiniteSets, TLC

(***************************************************************************)
(* Bounds of the model.                                                    *)
(***************************************************************************)
\* add_task is not offered once next_id exceeds this
MaxNextId == 3
\* the same for the concurrent invocations
MaxRaceNextId == 2
\* longest path handed to the matcher on its own
MaxPathLen == 3
\* longest tracked pattern handed to the matcher on its own
MaxPatLen == 2
\* longest path carried by a block-hook event
MaxHookPathLen == 1

(***************************************************************************)
(* Text helpers (Python str methods used by the hooks).                    *)
(***************************************************************************)
\* the characters paths and patterns are drawn from
Chars == {"/", "\\", ".", "a"}

\* every text over alphabet A of length at most n
Texts(A, n) == UNION {[1..k -> A] : k \in 0..n}

\* str.replace(old, new) for one-character old and new
replace(s, old, new) == [i \in 1..Len(s) |-> IF s[i] = old THEN new ELSE s[i]]

\* str.endswith(t)
endswith(s, t) ==
    /\ Len(t) <= Len(s)
    /\ SubSeq(s, Len(s) - Len(t) + 1, Len(s)) = t

\* the operator `in` between two str: t occurs somewhere in s
contains(s, t) ==
    \E i \in 1..(Len(s) + 1) :
        /\ i + Len(t) - 1 <= Len(s)
        /\ SubSeq(s, i, i + Len(t) - 1) = t

\* str.startswith(t)
startswith(s, t) ==
    /\ Len(t) <= Len(s)
    /\ SubSeq(s, 1, Len(t)) = t

Whitespace == {" ", "\n"}

\* str.strip(): leading and trailing whitespace removed
RECURSIVE lstrip(_)
lstrip(s) ==
    IF s # <<>> /\ Head(s) \in Whitespace THEN lstrip(Tail(s)) ELSE s

RECURSIVE rstrip(_)
rstrip(s) ==
    IF s # <<>> /\ s[Len(s)] \in Whitespace
    THEN rstrip(SubSeq(s, 1, Len(s) - 1))
    ELSE s

strip(s) == rstrip(lstrip(s))

(***************************************************************************)
(* pathlib.Path, POSIX flavour.  A parsed path is its root ("", "/" or     *)
(* "//") and its segments: empty segments and "." segments are dropped by  *)
(* the parser, ".." is kept.                                               *)
(***************************************************************************)
\* s cut at every "/"
RECURSIVE split(_)
split(s) ==
    IF \A i \in 1..Len(s) : s[i] # "/"
    THEN <<s>>
    ELSE LET i == CHOOSE j \in 1..Len(s) :
                      s[j] = "/" /\ \A k \in 1..(j - 1) : s[k] # "/"
         IN  <<SubSeq(s, 1, i - 1)>> \o split(SubSeq(s, i + 1, Len(s)))

\* segments joined by "/"
RECURSIVE join(_)
join(parts) ==
    IF parts = <<>> THEN <<>>
    ELSE IF Len(parts) = 1 THEN parts[1]
    ELSE parts[1] \o <<"/">> \o join(Tail(parts))

\* number of "/" that s starts with
RECURSIVE leading(_)
leading(s) ==
    IF s # <<>> /\ Head(s) = "/" THEN 1 + leading(Tail(s)) ELSE 0

\* Path(s): exactly two leading slashes are kept as the root "//"
Path(s) ==
    [root  |-> IF leading(s) = 0 THEN <<>>
               ELSE IF leading(s) = 2 THEN <<"/", "/">>
               ELSE <<"/">>,
     parts |-> SelectSeq(split(s), LAMBDA x : x # <<>> /\ x # <<".">>)]

\* str(p): the canonical text, "." for the empty relative path
PathStr(p) ==
    IF p.root = <<>> /\ p.parts = <<>> THEN <<".">>
    ELSE p.root \o join(p.parts)

\* p.name: the final segment, "" when there is none
PathName(p) ==
    IF p.parts = <<>> THEN <<>> ELSE p.parts[Len(p.parts)]

\* p.is_absolute()
is_absolute(p) == p.root # <<>>

\* p.relative_to(q) raises ValueError unless q's root and segments start p's
relative_to_fails(p, q) ==
    ~ (/\ q.root = p.root
       /\ Len(q.parts) <= Len(p.parts)
       /\ SubSeq(p.parts, 1, Len(q.parts)) = q.parts)

\* p.relative_to(q) when it does not raise: the segments left, no root
relative_to(p, q) ==
    [root |-> <<>>, parts |-> SubSeq(p.parts, Len(q.parts) + 1, Len(p.parts))]

(***************************************************************************)
(* Tracked-file matcher of the block hook.                                 *)
(***************************************************************************)
normalize_path(file_path, cwd) ==
    LET path == Path(file_path)
        cwd_path == Path(cwd)
    IN  IF is_absolute(path)
        THEN IF relative_to_fails(path, cwd_path)
             THEN PathName(path)
             ELSE replace(PathStr(relative_to(path, cwd_path)), "\\", "/")
        ELSE replace(PathStr(path), "\\", "/")

\* the loop body of is_tracked_file for one pattern
tracked_by(normalized_path, tracked) ==
    LET tracked_normalized == replace(tracked, "\\", "/")
    IN  \/ normalized_path = tracked_normalized
        \/ PathName(Path(normalized_path)) = PathName(Path(tracked_normalized))
        \/ endswith(normalized_path, tracked_normalized)

\* the loop of is_tracked_file from pattern i on: the first match returns
RECURSIVE tracked_from(_, _, _)
tracked_from(normalized_path, tracked_files, i) ==
    IF i > Len(tracked_files) THEN FALSE
    ELSE IF tracked_by(normalized_path, tracked_files[i]) THEN TRUE
    ELSE tracked_from(normalized_path, tracked_files, i + 1)

\* is_tracked_file that stops after the first pattern
is_tracked_file_first(file_path, cwd, tracked_files) ==
    /\ tracked_files # <<>>
    /\ tracked_by(normalize_path(file_path, cwd), tracked_files[1])

is_tracked_file(file_path, cwd, tracked_files) ==
    tracked_from(normalize_path(file_path, cwd), tracked_files, 1)

(***************************************************************************)
(* Tracked-file matcher of the notify hook (its own copy of the code).     *)
(***************************************************************************)
notify_normalize_path(file_path, cwd) ==
    LET path == Path(file_path)
        cwd_path == Path(cwd)
    IN  IF is_absolute(path)
        THEN IF relative_to_fails(path, cwd_path)
             THEN PathName(path)
             ELSE replace(PathStr(relative_to(path, cwd_path)), "\\", "/")
        ELSE replace(PathStr(path), "\\", "/")

\* the loop of the notify hook's is_tracked_file from pattern i on
RECURSIVE notify_tracked_from(_, _, _)
notify_tracked_from(normalized_path, tracked_files, i) ==
    IF i > Len(tracked_files) THEN FALSE
    ELSE LET tracked_normalized == replace(tracked_files[i], "\\", "/")
         IN  IF normalized_path = tracked_normalized THEN TRUE
             ELSE IF PathName(Path(normalized_path))
                        = PathName(Path(tracked_normalized)) THEN TRUE
             ELSE IF endswith(normalized_path, tracked_normalized) THEN TRUE
             ELSE notify_tracked_from(normalized_path, tracked_files, i + 1)

notify_is_tracked_file(file_path, cwd, tracked_files) ==
    notify_tracked_from(notify_normalize_path(file_path, cwd), tracked_files, 1)

\* the built-in list of both hooks
DEFAULT_TRACKED_FILES ==
    << <<"m", "a", "i", "n", ".", "p", "y">>,
       <<"s", "r", "c", "/", "t", "o", "d", "o", "_", "m", "a", "n", "a", "g",
         "e", "r", ".", "p", "y">>,
       <<"p", "y", "p", "r", "o", "j", "e", "c", "t", ".", "t", "o", "m", "l">>,
       <<"R", "E", "A", "D", "M", "E", ".", "m", "d">> >>


(***************************************************************************)
(* State.                                                                  *)
(*   file      the task-data file: the document {tasks, next_id}           *)
(*   assigned  history: the ids add_task has returned, in order            *)
(*   last      history: the last TodoManager call, the document it         *)
(*             loaded and what it returned                                 *)
(*   pc, cmd, data   per CLI invocation running concurrently: where it is  *)
(*             (idle, or between its load and its save), its command and   *)
(*             the document it loaded                                      *)
(*   fresh     history: nothing was saved since the invocation loaded      *)
(*   hist      history of the current pair of overlapping invocations      *)
(*   m_pc, m_in, m_out   one call of the tracked-file matcher              *)
(*   b_pc, b_in, b_st, b_out   one run of the block hook                   *)
(*   n_pc, n_in, n_out   one run of the notification hook                  *)
(***************************************************************************)
VARIABLES file, assigned, last,
          pc, cmd, data, fresh, hist,
          m_pc, m_in, m_out,
          b_pc, b_in, b_st, b_out,
          n_pc, n_in, n_out

todoVars == <<file, assigned, last>>
raceVars == <<pc, cmd, data, fresh, hist>>
matchVars == <<m_pc, m_in, m_out>>
blockVars == <<b_pc, b_in, b_st, b_out>>
notifVars == <<n_pc, n_in, n_out>>
vars == <<file, assigned, last, pc, cmd, data, fresh, hist,
          m_pc, m_in, m_out, b_pc, b_in, b_st, b_out, n_pc, n_in, n_out>>

(***************************************************************************)
(* TodoManager.                                                            *)
(***************************************************************************)
DEFAULT_TASKS_DATA == [tasks |-> <<>>, next_id |-> 1]

\* inputs of the commands
Titles == {"buy milk", "call"}
Descriptions == {"", "today"}
TaskIds == 0..(MaxNextId + 1)

\* _load_data: the file holds the document last saved (the file exists after
\* __init__ and holds valid JSON, so the fallback to the default is not taken)
load_data(f) == f

\* _save_data: the whole document replaces the file's content
save_data(d) == d

\* the ids of the tasks of a document
TaskIdsOf(d) == {d.tasks[k].id : k \in 1..Len(d.tasks)}

\* add_task that takes the new id from the number of tasks
add_task_count(d, title, description) ==
    LET task == [id |-> Len(d.tasks) + 1, title |-> title,
                 description |-> description, completed |-> FALSE]
    IN  [data  |-> [tasks |-> Append(d.tasks, task), next_id |-> Len(d.tasks) + 2],
         saved |-> TRUE,
         ret   |-> task]

\* add_task on the loaded document d: the document it saves and the task it
\* returns
add_task(d, title, description) ==
    LET task == [id |-> d.next_id, title |-> title,
                 description |-> description, completed |-> FALSE]
    IN  [data  |-> [tasks |-> Append(d.tasks, task), next_id |-> d.next_id + 1],
         saved |-> TRUE,
         ret   |-> task]

\* list_tasks that filters whatever show_completed is
list_tasks_always(d, show_completed) ==
    [data  |-> d,
     saved |-> FALSE,
     ret   |-> SelectSeq(d.tasks, LAMBDA t : ~ t.completed)]

\* list_tasks: nothing is saved
list_tasks(d, show_completed) ==
    [data  |-> d,
     saved |-> FALSE,
     ret   |-> IF ~ show_completed
               THEN SelectSeq(d.tasks, LAMBDA t : ~ t.completed)
               ELSE d.tasks]

\* complete_task that marks every task from the matching one on
complete_task_rest(d, task_id) ==
    IF \E k \in 1..Len(d.tasks) : d.tasks[k].id = task_id
    THEN LET k == CHOOSE j \in 1..Len(d.tasks) :
                      /\ d.tasks[j].id = task_id
                      /\ \A i \in 1..(j - 1) : d.tasks[i].id # task_id
         IN  [data  |-> [d EXCEPT !.tasks =
                           [i \in 1..Len(d.tasks) |->
                              IF i >= k THEN [d.tasks[i] EXCEPT !.completed = TRUE]
                              ELSE d.tasks[i]]],
              saved |-> TRUE,
              ret   |-> TRUE]
    ELSE [data |-> d, saved |-> FALSE, ret |-> FALSE]

\* complete_task: the first task with the id is marked and the document
\* saved; without such a task nothing is saved
complete_task(d, task_id) ==
    IF \E k \in 1..Len(d.tasks) : d.tasks[k].id = task_id
    THEN LET k == CHOOSE j \in 1..Len(d.tasks) :
                      /\ d.tasks[j].id = task_id
                      /\ \A i \in 1..(j - 1) : d.tasks[i].id # task_id
         IN  [data  |-> [d EXCEPT !.tasks[k].completed = TRUE],
              saved |-> TRUE,
              ret   |-> TRUE]
    ELSE [data |-> d, saved |-> FALSE, ret |-> FALSE]

\* delete_task that keeps only the tasks before the matching one
delete_task_truncate(d, task_id) ==
    LET kept == SelectSeq(d.tasks, LAMBDA t : t.id < task_id)
    IN  IF \E k \in 1..Len(d.tasks) : d.tasks[k].id = task_id
        THEN [data |-> [d EXCEPT !.tasks = kept], saved |-> TRUE, ret |-> TRUE]
        ELSE [data |-> d, saved |-> FALSE, ret |-> FALSE]

\* delete_task: every task with the id is filtered out; the document is
\* saved only when it became shorter
delete_task(d, task_id) ==
    LET original_length == Len(d.tasks)
        kept == SelectSeq(d.tasks, LAMBDA t : t.id # task_id)
    IN  IF Len(kept) < original_length
        THEN [data |-> [d EXCEPT !.tasks = kept], saved |-> TRUE, ret |-> TRUE]
        ELSE [data |-> [d EXCEPT !.tasks = kept], saved |-> FALSE, ret |-> FALSE]

\* the file after a call that loaded the file and produced r
FileAfter(r) == IF r.saved THEN save_data(r.data) ELSE file

NoCall == [op |-> "none", arg |-> 0, pre |-> DEFAULT_TASKS_DATA, ret |-> FALSE]

\* one CLI command after another, each a whole load-modify-save
AddTask ==
    /\ file.next_id <= MaxNextId
    /\ \E title \in Titles, description \in Descriptions :
         LET d == load_data(file)
             r == add_task(d, title, description)
         IN  /\ file' = FileAfter(r)
             /\ assigned' = Append(assigned, r.ret.id)
             /\ last' = [op |-> "add", arg |-> title, pre |-> d, ret |-> r.ret]
    /\ UNCHANGED <<raceVars, matchVars, blockVars, notifVars>>

ListTasks ==
    /\ \E show_completed \in BOOLEAN :
         LET d == load_data(file)
             r == list_tasks(d, show_completed)
         IN  /\ file' = FileAfter(r)
             /\ last' = [op |-> "list", arg |-> show_completed, pre |-> d,
                         ret |-> r.ret]
             /\ UNCHANGED assigned
    /\ UNCHANGED <<raceVars, matchVars, blockVars, notifVars>>

CompleteTask ==
    /\ \E task_id \in TaskIds :
         LET d == load_data(file)
             r == complete_task(d, task_id)
         IN  /\ file' = FileAfter(r)
             /\ last' = [op |-> "complete", arg |-> task_id, pre |-> d,
                         ret |-> r.ret]
             /\ UNCHANGED assigned
    /\ UNCHANGED <<raceVars, matchVars, blockVars, notifVars>>

DeleteTask ==
    /\ \E task_id \in TaskIds :
         LET d == load_data(file)
             r == delete_task(d, task_id)
         IN  /\ file' = FileAfter(r)
             /\ last' = [op |-> "delete", arg |-> task_id, pre |-> d,
                         ret |-> r.ret]
             /\ UNCHANGED assigned
    /\ UNCHANGED <<raceVars, matchVars, blockVars, notifVars>>

(***************************************************************************)
(* Concurrent CLI invocations.  Each invocation is a process of its own;   *)
(* the file is all they share, and nothing locks it: an invocation loads   *)
(* the document (one read of the file), changes its copy in memory and     *)
(* writes the whole copy back (one write of the file).                     *)
(***************************************************************************)
Procs == {1, 2}

\* the mutating commands of the CLI
Cmds ==
    {[op |-> "add", title |-> t, task_id |-> 0] : t \in Titles}
        \cup {[op |-> o, title |-> "", task_id |-> i] :
                 o \in {"complete", "delete"}, i \in 1..MaxRaceNextId}

NoCmd == [op |-> "none", title |-> "", task_id |-> 0]

\* what command c does to the loaded document d (description left empty)
Run(c, d) ==
    CASE c.op = "add" -> add_task(d, c.title, "")
      [] c.op = "complete" -> complete_task(d, c.task_id)
      [] c.op = "delete" -> delete_task(d, c.task_id)

\* an invocation that would read the file again when it saves
Modified_reread(p) == Run(cmd[p], load_data(file))

\* the result of invocation p: its command on the document it loaded
Modified(p) == Run(cmd[p], data[p])

NoHist == [both |-> FALSE, base |-> DEFAULT_TASKS_DATA, fin |-> <<>>]

\* invocation p starts: main builds the manager and the command loads the
\* file.  The history starts over; it is kept for a pair of invocations that
\* have both loaded before either saved.
Load(p) ==
    /\ pc[p] = "idle"
    /\ \E c \in Cmds :
         /\ c.op = "add" => file.next_id <= MaxRaceNextId
         /\ cmd' = [cmd EXCEPT ![p] = c]
    /\ data' = [data EXCEPT ![p] = load_data(file)]
    /\ pc' = [pc EXCEPT ![p] = "loaded"]
    /\ fresh' = [fresh EXCEPT ![p] = TRUE]
    /\ hist' = IF \E q \in Procs \ {p} : pc[q] = "loaded" /\ fresh[q]
               THEN [both |-> TRUE, base |-> file, fin |-> <<>>]
               ELSE NoHist
    /\ UNCHANGED file
    /\ UNCHANGED <<assigned, last, matchVars, blockVars, notifVars>>

\* invocation p finishes: it saves its copy when its command calls
\* _save_data, and the process ends (its memory is gone)
Finish(p) ==
    /\ pc[p] = "loaded"
    /\ LET r == Modified(p)
       IN  /\ file' = IF r.saved THEN save_data(r.data) ELSE file
           /\ fresh' = IF r.saved THEN [q \in Procs |-> FALSE]
                       ELSE [fresh EXCEPT ![p] = FALSE]
           /\ hist' = IF hist.both
                      THEN [hist EXCEPT !.fin =
                              Append(@, [cmd |-> cmd[p], wrote |-> r.saved])]
                      ELSE hist
    /\ pc' = [pc EXCEPT ![p] = "idle"]
    /\ cmd' = [cmd EXCEPT ![p] = NoCmd]
    /\ data' = [data EXCEPT ![p] = DEFAULT_TASKS_DATA]
    /\ UNCHANGED <<assigned, last, matchVars, blockVars, notifVars>>

(***************************************************************************)
(* Values of the parts of the state a specification does not use.          *)
(***************************************************************************)
RaceOff ==
    /\ pc = [p \in Procs |-> "off"]
    /\ cmd = [p \in Procs |-> NoCmd]
    /\ data = [p \in Procs |-> DEFAULT_TASKS_DATA]
    /\ fresh = [p \in Procs |-> FALSE]
    /\ hist = NoHist

MatchOff == m_pc = "off" /\ m_in = <<>> /\ m_out = <<>>

BlockOff == b_pc = "off" /\ b_in = <<>> /\ b_st = <<>> /\ b_out = <<>>

NotifOff == n_pc = "off" /\ n_in = <<>> /\ n_out = <<>>

(***************************************************************************)
(* SpecTodo: CLI commands run one after another on the initial document.   *)
(***************************************************************************)
InitTodo ==
    /\ file = DEFAULT_TASKS_DATA
    /\ assigned = <<>>
    /\ last = NoCall
    /\ RaceOff /\ MatchOff /\ BlockOff /\ NotifOff

NextTodo ==
    \/ AddTask
    \/ ListTasks
    \/ CompleteTask
    \/ DeleteTask

SpecTodo == InitTodo /\ [][NextTodo]_vars

(***************************************************************************)
(* SpecRace: two CLI invocations at a time, their loads and saves          *)
(* interleaved in every way.                                               *)
(***************************************************************************)
InitRace ==
    /\ file = DEFAULT_TASKS_DATA
    /\ assigned = <<>>
    /\ last = NoCall
    /\ pc = [p \in Procs |-> "idle"]
    /\ cmd = [p \in Procs |-> NoCmd]
    /\ data = [p \in Procs |-> DEFAULT_TASKS_DATA]
    /\ fresh = [p \in Procs |-> FALSE]
    /\ hist = NoHist
    /\ MatchOff /\ BlockOff /\ NotifOff

NextRace ==
    \E p \in Procs :
        \/ Load(p)
        \/ Finish(p)

SpecRace == InitRace /\ [][NextRace]_vars

(***************************************************************************)
(* Claims about TodoManager.                                               *)
(***************************************************************************)
\* C1: under sequential commands the ids add_task assigns are strictly
\* increasing in the order of assignment (so none is used twice, whatever was
\* deleted in between), and next_id is greater than every id assigned so far
\* and than the id of every task in the document.
C1_IdsNeverReused ==
    /\ \A i, j \in 1..Len(assigned) : i < j => assigned[i] < assigned[j]
    /\ \A i \in 1..Len(assigned) : assigned[i] < file.next_id
    /\ \A k \in 1..Len(file.tasks) : file.tasks[k].id < file.next_id

\* an add_task that follows the deletion of an earlier task
C1_Witness ==
    /\ last.op = "add"
    /\ Len(assigned) >= 2
    /\ \E i \in 1..(Len(assigned) - 1) : assigned[i] \notin TaskIdsOf(file)
    /\ assigned[Len(assigned)] \in TaskIdsOf(file)

\* C2: when two invocations have both loaded the document before either
\* saved and both then save, the file ends as exactly what the last writer
\* wrote, which is its own command applied to the document both loaded: a
\* task the other invocation added is not in it.
C2_LastWriterWins ==
    (/\ hist.both
     /\ Len(hist.fin) = 2
     /\ hist.fin[1].wrote
     /\ hist.fin[2].wrote)
    => LET w == hist.fin[2].cmd
           o == hist.fin[1].cmd
           fresh_id == hist.base.next_id
       IN  /\ file = Run(w, hist.base).data
           /\ o.op = "add" =>
                Cardinality({k \in 1..Len(file.tasks) : file.tasks[k].id = fresh_id})
                    = IF w.op = "add" THEN 1 ELSE 0

\* two overlapping adds of different titles: one task of the two is in the file
C2_Witness ==
    /\ hist.both
    /\ Len(hist.fin) = 2
    /\ hist.fin[1].cmd.op = "add" /\ hist.fin[2].cmd.op = "add"
    /\ hist.fin[1].cmd.title # hist.fin[2].cmd.title
    /\ Len(file.tasks) = Len(hist.base.tasks) + 1
    /\ file.tasks[Len(file.tasks)].title = hist.fin[2].cmd.title

\* s without its k-th element
RemoveAt(s, k) == SubSeq(s, 1, k - 1) \o SubSeq(s, k + 1, Len(s))

\* C3: delete_task(id) returns false and leaves tasks and next_id as they were
\* when no task has the id; otherwise it returns true, next_id is as it was,
\* and the tasks are the previous ones with exactly one task, one with that
\* id, taken out.
C3_DeleteExactlyOne ==
    last.op = "delete" =>
        IF last.arg \in TaskIdsOf(last.pre)
        THEN /\ last.ret = TRUE
             /\ file.next_id = last.pre.next_id
             /\ \E k \in 1..Len(last.pre.tasks) :
                    /\ last.pre.tasks[k].id = last.arg
                    /\ file.tasks = RemoveAt(last.pre.tasks, k)
        ELSE /\ last.ret = FALSE
             /\ file = last.pre

\* a task between two others was deleted
C3_Witness ==
    /\ last.op = "delete"
    /\ last.ret = TRUE
    /\ Len(last.pre.tasks) = 3
    /\ last.pre.tasks[2].id = last.arg

\* C4: complete_task(id) returns false and leaves the document as it was when
\* no task has the id; otherwise it returns true and the document differs from
\* the previous one only in that task's completed flag, which is true; calling
\* it again on the result returns true and changes nothing.
C4_CompleteIdempotent ==
    last.op = "complete" =>
        IF last.arg \in TaskIdsOf(last.pre)
        THEN /\ last.ret = TRUE
             /\ file.next_id = last.pre.next_id
             /\ Len(file.tasks) = Len(last.pre.tasks)
             /\ \A k \in 1..Len(file.tasks) :
                    IF last.pre.tasks[k].id = last.arg
                    THEN file.tasks[k] = [last.pre.tasks[k] EXCEPT !.completed = TRUE]
                    ELSE file.tasks[k] = last.pre.tasks[k]
             /\ complete_task(load_data(file), last.arg).ret = TRUE
             /\ FileAfter(complete_task(load_data(file), last.arg)) = file
        ELSE /\ last.ret = FALSE
             /\ file = last.pre

\* an open task among others was completed
C4_Witness ==
    /\ last.op = "complete"
    /\ last.ret = TRUE
    /\ Len(last.pre.tasks) >= 2
    /\ \E k \in 1..Len(last.pre.tasks) :
           last.pre.tasks[k].id = last.arg /\ ~ last.pre.tasks[k].completed

\* the positions of the open tasks of s
OpenAt(s) == {k \in 1..Len(s) : ~ s[k].completed}

\* the j-th smallest element of the set of positions P
Nth(P, j) == CHOOSE k \in P : Cardinality({i \in P : i < k}) = j - 1

\* C10: list_tasks(show_completed=False) returns the tasks whose completed
\* flag is false, each once and in document order; list_tasks(True) returns
\* the tasks of the document as they are; the file is as it was before.
C10_ListFilters ==
    last.op = "list" =>
        /\ file = last.pre
        /\ IF last.arg
           THEN last.ret = last.pre.tasks
           ELSE /\ Len(last.ret) = Cardinality(OpenAt(last.pre.tasks))
                /\ \A j \in 1..Len(last.ret) :
                       last.ret[j] = last.pre.tasks[Nth(OpenAt(last.pre.tasks), j)]

\* the active list of a document holding an open task after a completed one
C10_Witness ==
    /\ last.op = "list"
    /\ last.arg = FALSE
    /\ Len(last.pre.tasks) = 3
    /\ last.pre.tasks[1].completed
    /\ ~ last.pre.tasks[2].completed
    /\ last.pre.tasks[3].completed
    /\ Len(last.ret) = 1

(***************************************************************************)
(* SpecMatch: the matcher of each hook applied to one input.               *)
(***************************************************************************)
\* tracked patterns: non-empty lines (load_tracked_files drops the empty ones)
Patterns == Texts(Chars, MaxPatLen) \ {<<>>}

\* working directories: none given, the root, a directory
Cwds == {<<>>, <<"/">>, <<"/", "a">>}

\* pattern lists: one pattern, or a pattern followed by the pattern "a"
TrackedLists ==
    {<<t>> : t \in Patterns} \cup {<<t, <<"a">>>> : t \in Patterns}

README_md == <<"R", "E", "A", "D", "M", "E", ".", "m", "d">>
repo_README_md ==
    <<"/", "r", "e", "p", "o", "/", "R", "E", "A", "D", "M", "E", ".", "m", "d">>
repo == <<"/", "r", "e", "p", "o">>
other_todo_manager_py ==
    <<"o", "t", "h", "e", "r", "/", "t", "o", "d", "o", "_", "m", "a", "n", "a",
      "g", "e", "r", ".", "p", "y">>
src_todo_manager_py ==
    <<"s", "r", "c", "/", "t", "o", "d", "o", "_", "m", "a", "n", "a", "g", "e",
      "r", ".", "p", "y">>
main_py == <<"m", "a", "i", "n", ".", "p", "y">>
main_pyc == <<"m", "a", "i", "n", ".", "p", "y", "c">>

Example1 == [file_path |-> repo_README_md, cwd |-> repo,
             tracked_files |-> <<README_md>>]
Example2 == [file_path |-> other_todo_manager_py, cwd |-> repo,
             tracked_files |-> <<src_todo_manager_py>>]
Example3 == [file_path |-> main_pyc, cwd |-> repo,
             tracked_files |-> <<main_py>>]

MatchInputs ==
    [file_path : Texts(Chars, MaxPathLen), cwd : Cwds, tracked_files : TrackedLists]
        \cup [file_path : {repo_README_md, other_todo_manager_py, main_pyc, main_py},
              cwd : {<<>>, repo},
              tracked_files : {DEFAULT_TRACKED_FILES}]
        \cup {Example1, Example2, Example3}

InitMatch ==
    /\ m_pc = "input"
    /\ m_in \in MatchInputs
    /\ m_out = [block |-> FALSE, notify |-> FALSE]
    /\ file = DEFAULT_TASKS_DATA /\ assigned = <<>> /\ last = NoCall
    /\ RaceOff /\ BlockOff /\ NotifOff

\* the block hook, run before the tool, decides whether the path is tracked
MatchBlock ==
    /\ m_pc = "input"
    /\ m_pc' = "pre"
    /\ m_out' = [m_out EXCEPT !.block =
                   is_tracked_file(m_in.file_path, m_in.cwd, m_in.tracked_files)]
    /\ UNCHANGED m_in
    /\ UNCHANGED <<todoVars, raceVars, blockVars, notifVars>>

\* the notify hook, run after the tool, decides the same with its own copy
MatchNotify ==
    /\ m_pc = "pre"
    /\ m_pc' = "done"
    /\ m_out' = [m_out EXCEPT !.notify =
                   notify_is_tracked_file(m_in.file_path, m_in.cwd,
                                          m_in.tracked_files)]
    /\ UNCHANGED m_in
    /\ UNCHANGED <<todoVars, raceVars, blockVars, notifVars>>

NextMatch ==
    \/ MatchBlock
    \/ MatchNotify

SpecMatch == InitMatch /\ [][NextMatch]_vars

(***************************************************************************)
(* Claims about the tracked-file matcher.                                  *)
(***************************************************************************)
\* the final path segment of a text
FinalSegment(s) == PathName(Path(s))

\* path is absolute and under cwd
UnderCwd(path, cwd) ==
    is_absolute(Path(path)) /\ ~ relative_to_fails(Path(path), Path(cwd))

\* some pattern matches the normalized text n in one of the three ways
SomePatternMatches(n, patterns) ==
    \E i \in 1..Len(patterns) :
        LET t == replace(patterns[i], "\\", "/")
        IN  \/ n = t
            \/ FinalSegment(n) = FinalSegment(t)
            \/ endswith(n, t)

\* the normalized path as the claim states it: a relative path is taken as
\* it is, with slashes
NormalizedAsStated(path, cwd) ==
    IF UnderCwd(path, cwd)
    THEN replace(PathStr(relative_to(Path(path), Path(cwd))), "\\", "/")
    ELSE IF is_absolute(Path(path)) THEN FinalSegment(path)
    ELSE replace(path, "\\", "/")

\* the normalized path of the amended claim: a relative path is taken in the
\* text pathlib gives it (str(Path(path))), with slashes
NormalizedCanonical(path, cwd) ==
    IF UnderCwd(path, cwd)
    THEN replace(PathStr(relative_to(Path(path), Path(cwd))), "\\", "/")
    ELSE IF is_absolute(Path(path)) THEN FinalSegment(path)
    ELSE replace(PathStr(Path(path)), "\\", "/")

\* the three examples of the claim give true, true and false
ExamplesHold ==
    /\ m_in = Example1 => m_out.block
    /\ m_in = Example2 => m_out.block
    /\ m_in = Example3 => ~ m_out.block

\* C9 as stated: is_tracked_file is true exactly when some pattern equals the
\* normalized path, has its final segment, or ends it, the normalized path
\* of a relative path being the path itself with slashes; the three examples
\* give true, true, false; both hooks compute the same result.
C9_AsStated ==
    m_pc = "done" =>
        /\ m_out.block = SomePatternMatches(
                             NormalizedAsStated(m_in.file_path, m_in.cwd),
                             m_in.tracked_files)
        /\ ExamplesHold
        /\ m_out.notify = m_out.block

\* C9 amended: the same, the normalized path of a relative path being the
\* text pathlib gives the path (empty and "." segments and trailing slashes
\* dropped, "." when nothing is left) with backslashes replaced by slashes.
C9_Matcher ==
    m_pc = "done" =>
        /\ m_out.block = SomePatternMatches(
                             NormalizedCanonical(m_in.file_path, m_in.cwd),
                             m_in.tracked_files)
        /\ ExamplesHold
        /\ m_out.notify = m_out.block

\* a relative path that pathlib rewrites, tracked only because its rewritten
\* text ends with the second pattern of the list
C9_Witness ==
    /\ m_pc = "done"
    /\ m_out.block
    /\ ~ is_absolute(Path(m_in.file_path))
    /\ PathStr(Path(m_in.file_path)) # m_in.file_path
    /\ Len(m_in.tracked_files) = 2
    /\ ~ tracked_by(normalize_path(m_in.file_path, m_in.cwd), m_in.tracked_files[1])
    /\ FinalSegment(normalize_path(m_in.file_path, m_in.cwd)) # <<"a">>

(***************************************************************************)
(* The block hook (pre_prevent_modify_hook.py), one run.                   *)
(*                                                                         *)
(* An event is a JSON object whose fields, when present, have the type the *)
(* host tool gives them: tool_name and cwd are strings, tool_input is an   *)
(* object, file_path and notebook_path are strings (possibly empty).       *)
(* Notify() is taken to construct; notification.send may raise.            *)
(***************************************************************************)
BLOCK_EXIT == 1
JSON_ERROR_EXIT == 1
HOOK_ERROR_EXIT == 1

ToolNames == {"", "Edit", "Write", "NotebookEdit", "Read"}

\* the tool check written without the notebook tool
is_mutating_tool_short(tool_name) == tool_name \in {"Edit", "Write"}

\* tool_name in ["Edit", "Write", "NotebookEdit"]
is_mutating_tool(tool_name) == tool_name \in {"Edit", "Write", "NotebookEdit"}

\* the lines tracked_files.txt may hold, as read (with their line ends)
ConfigLines ==
    {t \o <<"\n">> : t \in Texts(Chars, 1)}
        \cup {<<"#", "a", "\n">>, <<" ", "a", " ", "\n">>, <<".", "/", "a">>}

\* tracked_files.txt: absent, unreadable, empty, or one or two lines
ConfigFiles ==
    {[exists |-> FALSE, readable |-> FALSE, lines |-> <<>>],
     [exists |-> TRUE, readable |-> FALSE, lines |-> <<>>],
     [exists |-> TRUE, readable |-> TRUE, lines |-> <<>>]}
        \cup {[exists |-> TRUE, readable |-> TRUE, lines |-> <<l>>] :
                 l \in ConfigLines}
        \cup {[exists |-> TRUE, readable |-> TRUE,
               lines |-> <<<<"#", "a", "\n">>, l>>] : l \in ConfigLines}

\* the lines kept by load_tracked_files: stripped, not empty, not a comment
RECURSIVE kept_lines(_)
kept_lines(lines) ==
    IF lines = <<>> THEN <<>>
    ELSE LET line == strip(Head(lines))
         IN  IF line # <<>> /\ ~ startswith(line, <<"#">>)
             THEN <<line>> \o kept_lines(Tail(lines))
             ELSE kept_lines(Tail(lines))

\* load_tracked_files
load_tracked_files(config) ==
    IF config.exists
    THEN IF config.readable
         THEN IF kept_lines(config.lines) # <<>>
              THEN kept_lines(config.lines)
              ELSE DEFAULT_TRACKED_FILES
         ELSE DEFAULT_TRACKED_FILES
    ELSE DEFAULT_TRACKED_FILES

HookPaths == Texts(Chars, MaxHookPathLen)

\* a key of tool_input: absent, or present with a string
HookFields ==
    {[has |-> FALSE, value |-> <<>>]}
        \cup {[has |-> TRUE, value |-> v] : v \in HookPaths}

NoEvent == [tool_name |-> "", file_path |-> [has |-> FALSE, value |-> <<>>],
            notebook_path |-> [has |-> FALSE, value |-> <<>>], cwd |-> <<>>]

BlockEvents ==
    [tool_name : ToolNames, file_path : HookFields, notebook_path : HookFields,
     cwd : {<<>>, <<"/">>}]

\* what the hook is run with: the configuration file and standard input
BlockInputs ==
    [config : ConfigFiles, stdin : {"malformed", "nonobject"}, event : {NoEvent}]
        \cup [config : ConfigFiles, stdin : {"object"}, event : BlockEvents]

\* file_path as main extracts it from tool_input
extract_file_path(event) ==
    IF event.file_path.has THEN event.file_path
    ELSE IF event.notebook_path.has THEN event.notebook_path
    ELSE [has |-> FALSE, value |-> <<>>]

BlockRunning == [exit |-> -1, stderr |-> <<>>, notified |-> FALSE]

InitBlock ==
    /\ b_pc = "start"
    /\ b_in \in BlockInputs
    /\ b_st = [tracked_files |-> <<>>, file_path |-> [has |-> FALSE, value |-> <<>>]]
    /\ b_out = BlockRunning
    /\ file = DEFAULT_TASKS_DATA /\ assigned = <<>> /\ last = NoCall
    /\ RaceOff /\ MatchOff /\ NotifOff

\* tracked_files = load_tracked_files()
B_LoadTracked ==
    /\ b_pc = "start"
    /\ b_st' = [b_st EXCEPT !.tracked_files = load_tracked_files(b_in.config)]
    /\ b_out' = IF b_in.config.exists /\ ~ b_in.config.readable
                THEN [b_out EXCEPT !.stderr = Append(@, "load_error")]
                ELSE b_out
    /\ b_pc' = "read"
    /\ UNCHANGED b_in
    /\ UNCHANGED <<todoVars, raceVars, matchVars, notifVars>>

\* hook_data = json.load(sys.stdin) and the three .get calls: input that is
\* not JSON, or not a JSON object, ends in an except clause
B_ReadEvent ==
    /\ b_pc = "read"
    /\ \/ /\ b_in.stdin = "malformed"
          /\ b_out' = [b_out EXCEPT !.exit = JSON_ERROR_EXIT,
                                    !.stderr = Append(@, "json_error")]
          /\ b_pc' = "done"
       \/ /\ b_in.stdin = "nonobject"
          /\ b_out' = [b_out EXCEPT !.exit = HOOK_ERROR_EXIT,
                                    !.stderr = Append(@, "hook_error")]
          /\ b_pc' = "done"
       \/ /\ b_in.stdin = "object"
          /\ b_out' = b_out
          /\ b_pc' = "tool"
    /\ UNCHANGED <<b_in, b_st>>
    /\ UNCHANGED <<todoVars, raceVars, matchVars, notifVars>>

\* only the file modification tools are checked
B_CheckTool ==
    /\ b_pc = "tool"
    /\ IF ~ is_mutating_tool(b_in.event.tool_name)
       THEN b_out' = [b_out EXCEPT !.exit = 0] /\ b_pc' = "done"
       ELSE b_out' = b_out /\ b_pc' = "path"
    /\ UNCHANGED <<b_in, b_st>>
    /\ UNCHANGED <<todoVars, raceVars, matchVars, notifVars>>

\* the path from tool_input; no path, or an empty one, ends the run
B_GetPath ==
    /\ b_pc = "path"
    /\ LET file_path == extract_file_path(b_in.event)
       IN  /\ b_st' = [b_st EXCEPT !.file_path = file_path]
           /\ IF ~ file_path.has \/ file_path.value = <<>>
              THEN b_out' = [b_out EXCEPT !.exit = 0] /\ b_pc' = "done"
              ELSE b_out' = b_out /\ b_pc' = "match"
    /\ UNCHANGED b_in
    /\ UNCHANGED <<todoVars, raceVars, matchVars, notifVars>>

\* if is_tracked_file(file_path, cwd, tracked_files)
B_CheckTracked ==
    /\ b_pc = "match"
    /\ IF is_tracked_file(b_st.file_path.value, b_in.event.cwd, b_st.tracked_files)
       THEN b_out' = b_out /\ b_pc' = "notify"
       ELSE b_out' = [b_out EXCEPT !.exit = 0] /\ b_pc' = "done"
    /\ UNCHANGED <<b_in, b_st>>
    /\ UNCHANGED <<todoVars, raceVars, matchVars, notifVars>>

\* send_notification: a failure of send is reported and swallowed
B_Notify ==
    /\ b_pc = "notify"
    /\ \/ b_out' = [b_out EXCEPT !.notified = TRUE]
       \/ b_out' = [b_out EXCEPT !.stderr = Append(@, "notify_error")]
    /\ b_pc' = "block"
    /\ UNCHANGED <<b_in, b_st>>
    /\ UNCHANGED <<todoVars, raceVars, matchVars, notifVars>>

\* the three diagnostic lines, then sys.exit
B_Block ==
    /\ b_pc = "block"
    /\ b_out' = [b_out EXCEPT !.exit = BLOCK_EXIT,
                              !.stderr = @ \o <<"blocked", "tracked", "remedy">>]
    /\ b_pc' = "done"
    /\ UNCHANGED <<b_in, b_st>>
    /\ UNCHANGED <<todoVars, raceVars, matchVars, notifVars>>

NextBlock ==
    \/ B_LoadTracked
    \/ B_ReadEvent
    \/ B_CheckTool
    \/ B_GetPath
    \/ B_CheckTracked
    \/ B_Notify
    \/ B_Block

SpecBlock == InitBlock /\ [][NextBlock]_vars

(***************************************************************************)
(* Claims about the block hook.                                            *)
(***************************************************************************)
\* the block diagnostic lines were printed
BlockDiagnostic ==
    \E i \in 1..Len(b_out.stderr) : b_out.stderr[i] = "blocked"

\* the path the event carries: file_path, else notebook_path
TakenPath == extract_file_path(b_in.event)

\* the event carries a path and the matcher, given the loaded list, matches it
TakenPathTracked ==
    /\ TakenPath.has
    /\ is_tracked_file(TakenPath.value, b_in.event.cwd,
                       load_tracked_files(b_in.config))

\* a tool outside the three ends the run with status 0 and no diagnostic
OtherToolPasses ==
    b_in.event.tool_name \notin {"Edit", "Write", "NotebookEdit"}
        => b_out.exit = 0 /\ ~ BlockDiagnostic

C6_BlockExitDistinct ==
    (b_pc = "done" /\ BlockDiagnostic) =>
        b_out.exit \notin {JSON_ERROR_EXIT, HOOK_ERROR_EXIT}

(***************************************************************************)
(* The notification hook (notification_line_hook.py), one run.             *)
(*                                                                         *)
(* hook_event_name and message, when present, are strings.  The exits of   *)
(* main are sys.exit calls: SystemExit is not an Exception, so the outer   *)
(* except clause does not catch them.                                      *)
(***************************************************************************)
NO_INPUT_EXIT == 1
BAD_JSON_EXIT == 1
NOT_NOTIFICATION_EXIT == 0
NO_MESSAGE_EXIT == 1
NO_ENV_EXIT == 1
NO_TOKEN_EXIT == 1
NO_USER_EXIT == 1
SENT_EXIT == 0
SEND_FAILED_EXIT == 1
EXCEPTION_EXIT == 1

Notification == <<"N", "o", "t", "i", "f", "i", "c", "a", "t", "i", "o", "n">>

EventNames ==
    {<<>>,
     Notification,
     <<"I", "d", "l", "e">> \o Notification,
     <<"n", "o", "t", "i", "f", "i", "c", "a", "t", "i", "o", "n">>,
     <<"N", "o", "t", "i", "f", "y">>,
     <<"P", "r", "e", "T", "o", "o", "l", "U", "s", "e">>}

\* standard input as text: nothing, white space only, or text that is not
\* JSON, JSON but no object, a JSON object
StdinTexts ==
    {[text |-> <<>>, json |-> "none"],
     [text |-> <<" ", "\n">>, json |-> "none"],
     [text |-> <<"{", "\n">>, json |-> "malformed"],
     [text |-> <<"[", "]", "\n">>, json |-> "nonobject"],
     [text |-> <<"{", "}", "\n">>, json |-> "object"]}

\* a key of the event: absent, or present with a string
EventNameFields ==
    {[has |-> FALSE, value |-> <<>>]}
        \cup {[has |-> TRUE, value |-> v] : v \in EventNames}

MessageFields ==
    {[has |-> FALSE, value |-> ""], [has |-> TRUE, value |-> ""],
     [has |-> TRUE, value |-> "Task done"]}

\* os.getenv after load_dotenv: "unset" stands for None
TokenValues == {"unset", "", "your_channel_access_token_here", "token-1"}
UserIdValues == {"unset", "", "your_line_user_id_here", "U123"}

NoNotifEvent == [hook_event_name |-> [has |-> FALSE, value |-> <<>>],
                 message |-> [has |-> FALSE, value |-> ""]]

NotifEnvs ==
    [env_exists : BOOLEAN, access_token : TokenValues, user_id : UserIdValues]

NotifInputs ==
    [stdin : {t \in StdinTexts : t.json # "object"}, event : {NoNotifEvent},
     env : NotifEnvs]
        \cup [stdin : {t \in StdinTexts : t.json = "object"},
              event : [hook_event_name : EventNameFields, message : MessageFields],
              env : NotifEnvs]

\* the event test written as an equality
is_notification_event_exact(hook_event_name) ==
    hook_event_name.has /\ hook_event_name.value = Notification

\* not (not hook_event_name or "Notification" not in hook_event_name)
is_notification_event(hook_event_name) ==
    /\ hook_event_name.has
    /\ hook_event_name.value # <<>>
    /\ contains(hook_event_name.value, Notification)

\* not access_token or access_token == placeholder (the same for user_id)
credential_missing(value, placeholder) ==
    value = "unset" \/ value = "" \/ value = placeholder

\* what the endpoint can answer to the POST: a final response of one of the
\* status classes, or no response (connection error, timeout)
Responses == {"2xx", "3xx", "4xx", "5xx", "network_error"}

\* response.raise_for_status(): raises HTTPError for 4xx and 5xx only
raise_for_status(response) == response \in {"4xx", "5xx"}

\* the result of send_line_notification: False when requests.post or
\* raise_for_status raised a RequestException, True otherwise
send_line_notification(response) ==
    ~ (response = "network_error" \/ raise_for_status(response))

\* passed lists the checks of main passed so far, response is the answer to
\* the POST ("none" before it)
NotifRunning ==
    [exit |-> -1, stderr |-> <<>>, posts |-> 0, passed |-> <<>>,
     response |-> "none"]

NotifExit(code, line) ==
    /\ n_out' = [n_out EXCEPT !.exit = code, !.stderr = Append(@, line)]
    /\ n_pc' = "done"

InitNotif ==
    /\ n_pc = "start"
    /\ n_in \in NotifInputs
    /\ n_out = NotifRunning
    /\ file = DEFAULT_TASKS_DATA /\ assigned = <<>> /\ last = NoCall
    /\ RaceOff /\ MatchOff /\ BlockOff

\* a run that lets input that is not JSON pass silently
N_Parse_silent ==
    /\ n_pc = "parse"
    /\ IF n_in.stdin.json = "malformed"
       THEN NotifExit(0, "json_error")
       ELSE IF n_in.stdin.json = "nonobject"
       THEN NotifExit(EXCEPTION_EXIT, "exception")
       ELSE n_out' = n_out /\ n_pc' = "event"
    /\ UNCHANGED n_in
    /\ UNCHANGED <<todoVars, raceVars, matchVars, blockVars>>

\* input_data = sys.stdin.read(); nothing but white space ends the run
N_Read ==
    /\ n_pc = "start"
    /\ IF strip(n_in.stdin.text) = <<>>
       THEN NotifExit(NO_INPUT_EXIT, "no_input")
       ELSE n_out' = n_out /\ n_pc' = "parse"
    /\ UNCHANGED n_in
    /\ UNCHANGED <<todoVars, raceVars, matchVars, blockVars>>

\* event_data = json.loads(input_data); on JSON that is no object the
\* following event_data.get raises, which the outer except clause reports
N_Parse ==
    /\ n_pc = "parse"
    /\ IF n_in.stdin.json = "malformed"
       THEN NotifExit(BAD_JSON_EXIT, "json_error")
       ELSE IF n_in.stdin.json = "nonobject"
       THEN NotifExit(EXCEPTION_EXIT, "exception")
       ELSE n_out' = n_out /\ n_pc' = "event"
    /\ UNCHANGED n_in
    /\ UNCHANGED <<todoVars, raceVars, matchVars, blockVars>>

\* the received event is logged; any event but a notification ends the run
N_CheckEvent ==
    /\ n_pc = "event"
    /\ IF ~ is_notification_event(n_in.event.hook_event_name)
       THEN NotifExit(NOT_NOTIFICATION_EXIT, "received")
       ELSE /\ n_out' = [n_out EXCEPT !.stderr = Append(@, "received"),
                                      !.passed = Append(@, "event")]
            /\ n_pc' = "message"
    /\ UNCHANGED n_in
    /\ UNCHANGED <<todoVars, raceVars, matchVars, blockVars>>

\* notification_message = event_data.get("message")
N_CheckMessage ==
    /\ n_pc = "message"
    /\ IF ~ n_in.event.message.has \/ n_in.event.message.value = ""
       THEN NotifExit(NO_MESSAGE_EXIT, "no_message")
       ELSE /\ n_out' = [n_out EXCEPT !.passed = Append(@, "message")]
            /\ n_pc' = "env"
    /\ UNCHANGED n_in
    /\ UNCHANGED <<todoVars, raceVars, matchVars, blockVars>>

\* the .env file must exist
N_CheckEnv ==
    /\ n_pc = "env"
    /\ IF ~ n_in.env.env_exists
       THEN NotifExit(NO_ENV_EXIT, "no_env")
       ELSE /\ n_out' = [n_out EXCEPT !.passed = Append(@, "env")]
            /\ n_pc' = "token"
    /\ UNCHANGED n_in
    /\ UNCHANGED <<todoVars, raceVars, matchVars, blockVars>>

\* the access token must be set and not the placeholder
N_CheckToken ==
    /\ n_pc = "token"
    /\ IF credential_missing(n_in.env.access_token, "your_channel_access_token_here")
       THEN NotifExit(NO_TOKEN_EXIT, "no_token")
       ELSE /\ n_out' = [n_out EXCEPT !.passed = Append(@, "token")]
            /\ n_pc' = "user"
    /\ UNCHANGED n_in
    /\ UNCHANGED <<todoVars, raceVars, matchVars, blockVars>>

\* the recipient id must be set and not the placeholder
N_CheckUser ==
    /\ n_pc = "user"
    /\ IF credential_missing(n_in.env.user_id, "your_line_user_id_here")
       THEN NotifExit(NO_USER_EXIT, "no_user")
       ELSE /\ n_out' = [n_out EXCEPT !.passed = Append(@, "user")]
            /\ n_pc' = "send"
    /\ UNCHANGED n_in
    /\ UNCHANGED <<todoVars, raceVars, matchVars, blockVars>>

\* success = send_line_notification(...): one requests.post, then exit 0 when
\* the result is True and exit 1 (after the report on stderr) when it is False
N_Send ==
    /\ n_pc = "send"
    /\ \E response \in Responses :
         n_out' = [n_out EXCEPT
                     !.exit     = IF send_line_notification(response)
                                  THEN SENT_EXIT ELSE SEND_FAILED_EXIT,
                     !.stderr   = IF send_line_notification(response)
                                  THEN @ ELSE Append(@, "send_failed"),
                     !.posts    = @ + 1,
                     !.response = response]
    /\ n_pc' = "done"
    /\ UNCHANGED n_in
    /\ UNCHANGED <<todoVars, raceVars, matchVars, blockVars>>

NextNotif ==
    \/ N_Read
    \/ N_Parse
    \/ N_CheckEvent
    \/ N_CheckMessage
    \/ N_CheckEnv
    \/ N_CheckToken
    \/ N_CheckUser
    \/ N_Send

SpecNotif == InitNotif /\ [][NextNotif]_vars

(***************************************************************************)
(* Claims about the notification hook.                                     *)
(***************************************************************************)
\* standard input is empty, white space only, or not valid JSON
NoUsableInput ==
    strip(n_in.stdin.text) = <<>> \/ n_in.stdin.json = "malformed"

\* C7 as stated: on empty (or white-space-only) input and on input that is
\* not valid JSON the hook exits with status 0 and makes no outbound call.
C7_AsStated ==
    (n_pc = "done" /\ NoUsableInput) => n_out.exit = 0 /\ n_out.posts = 0

\* C7 amended: on such input the hook exits with status 1 and makes no
\* outbound call.
C7_BadInputExitsOne ==
    (n_pc = "done" /\ NoUsableInput) => n_out.exit = 1 /\ n_out.posts = 0

\* a run on input that is not valid JSON has ended
C7_Witness ==
    /\ n_pc = "done"
    /\ n_in.stdin.json = "malformed"
    /\ n_out.exit = 1
    /\ n_in.env.env_exists
    /\ n_in.env.access_token = "token-1"
    /\ n_in.env.user_id = "U123"

\* hook_event_name is present and contains "Notification"
NamesNotification ==
    /\ n_in.event.hook_event_name.has
    /\ LET name == n_in.event.hook_event_name.value
       IN  \E i \in 1..(Len(name) - Len(Notification) + 1) :
               \A j \in 1..Len(Notification) : name[i + j - 1] = Notification[j]

\* C8: for input that is a JSON object, an event name that is absent, empty
\* or without the substring "Notification" gives exit status 0 and no outbound
\* call whatever message and credentials are; an event name with the substring
\* and a message that is absent or empty gives exit status 1 and no outbound
\* call.
C8_EventAndMessageGate ==
    (n_pc = "done" /\ n_in.stdin.json = "object") =>
        /\ ~ NamesNotification => n_out.exit = 0 /\ n_out.posts = 0
        /\ (NamesNotification
              /\ (~ n_in.event.message.has \/ n_in.event.message.value = ""))
             => n_out.exit = 1 /\ n_out.posts = 0

\* an IdleNotification event without message, with working credentials
C8_Witness ==
    /\ n_pc = "done"
    /\ n_in.stdin.json = "object"
    /\ n_in.event.hook_event_name.value = <<"I", "d", "l", "e">> \o Notification
    /\ ~ n_in.event.message.has
    /\ n_in.env.env_exists
    /\ n_in.env.access_token = "token-1"
    /\ n_in.env.user_id = "U123"
    /\ n_out.exit = 1

\* the five checks of main, in the order the claim lists them
ChecksInOrder == <<"event", "message", "env", "token", "user">>

\* the conditions the five checks stand for, on the input of the run
C11_ChecksHold ==
    /\ NamesNotification
    /\ n_in.event.message.has /\ n_in.event.message.value # ""
    /\ n_in.env.env_exists
    /\ n_in.env.access_token \notin {"unset", "", "your_channel_access_token_here"}
    /\ n_in.env.user_id \notin {"unset", "", "your_line_user_id_here"}

\* at most one POST is issued in a run, and a POST has been issued only when
\* the five checks were passed, in order, each of them on a condition that
\* holds; until the last check is passed no POST has been issued
C11_PostOnceAfterChecks ==
    /\ n_out.posts <= 1
    /\ \E k \in 0..Len(ChecksInOrder) : n_out.passed = SubSeq(ChecksInOrder, 1, k)
    /\ n_out.passed # ChecksInOrder => n_out.posts = 0
    /\ n_out.posts = 1 => C11_ChecksHold /\ n_pc = "done"

\* the POST succeeded: no network error and a 2xx response
PostSucceeded == n_out.response = "2xx"

\* C11: in every run of the notification hook at most one POST is issued and
\* it is never retried; it is issued only after these checks have passed in
\* order: the event name contains "Notification", the message is non-empty,
\* the environment file exists, the access token is set and not the
\* placeholder, the recipient id is set and not the placeholder. Once the POST
\* is issued the hook exits with status 0 if and only if the POST succeeded
\* (no network error and a 2xx response), and with status 1 otherwise.
C11_PostThenExit ==
    /\ C11_PostOnceAfterChecks
    /\ n_out.posts = 1 =>
          /\ PostSucceeded => n_out.exit = 0
          /\ ~ PostSucceeded => n_out.exit = 1

=============================================================================
